---- MODULE Spec2Model ----
\* Rocket Retail EDA dashboard (src/app.py): a script that the hosting runtime
\* runs top to bottom once per session start and once per selection event.
\* One run is a "render pass": page chrome, the sidebar radio, then the branch
\* of the if/elif chain that matches the radio's value.  The model follows one
\* run statement by statement, so that a selection or a change of the results
\* folder can fall between any two statements.
EXTENDS Naturals, Sequences, FiniteSets

\* ---------------------------------------------------------------- bounds

\* Distinct byte contents a readable HTML or PDF artifact may have.
NumContents == 2

\* ------------------------------------------------------- program constants

\* embed_html(file_name, height=600)
DefaultHeight == 600

\* st.columns(2)
NumColumns == 2

\* ------------------------------------------------------------ the sessions

Sessions == {"s1", "s2"}
Solo == {"s1"}

\* Value of a script variable that no statement has assigned yet.
Null == "<unset>"

\* ------------------------------------------------------ results directory

ImageFiles ==
    { "event_type_distribution.png",
      "visitor_event_distribution_full.png",
      "visitor_event_distribution_zoomed.png",
      "sessions_per_visitor_distribution.png",
      "events_per_session_distribution_zoomed.png",
      "time_gap_distribution_log.png",
      "conversion_funnel.png",
      "visitor_interaction_distribution.png",
      "basket_size_distribution.png",
      "top_categories_by_transactions.png",
      "event_lag_analysis_seconds.png" }

HtmlFile == "sunburst_category_transactions.html"

PdfFile == "executive_summary.pdf"

Files == ImageFiles \cup {HtmlFile, PdfFile}

\* What the script can observe of one file of results_folder:
\*   absent      path.exists() is False
\*   ok          exists, open() and read() succeed and yield `data`
\*   malformed   exists, open() succeeds, the text-mode utf-8 read() raises
\*   unopenable  exists, open() raises (permissions, removed after exists() returned)
\* The script only passes the path of an image on (st.image(str(path))) and
\* never opens or decodes it, so an image is absent or ok.
Absent == [st |-> "absent", data |-> 0]
Ok(c) == [st |-> "ok", data |-> c]
Malformed == [st |-> "malformed", data |-> 0]
Unopenable == [st |-> "unopenable", data |-> 0]

Contents == 1..NumContents

FileStates(f) ==
    IF f \in ImageFiles THEN {Absent, Ok(1)}
    ELSE IF f = HtmlFile THEN {Absent, Malformed, Unopenable} \cup {Ok(c) : c \in Contents}
    ELSE {Absent, Unopenable} \cup {Ok(c) : c \in Contents}

EmptyStore == [f \in Files |-> Absent]
FullStore(c) == [f \in Files |-> IF f \in ImageFiles THEN Ok(1) ELSE Ok(c)]

TypeStore(st) == \A f \in Files : st[f] \in FileStates(f)

\* The folder contents the offline pipeline is taken to leave behind: nothing,
\* everything, or everything with one file in one of its other states.
OneOff ==
    {[FullStore(1) EXCEPT ![f] = x] : f \in Files, x \in {Absent, Malformed, Unopenable}}

StoreCases ==
    {EmptyStore} \cup {FullStore(c) : c \in Contents} \cup {st \in OneOff : TypeStore(st)}

\* ------------------------------------------------------------ the script

\* Statements of the script, as data.  slot is the layout container the
\* statement runs in ("main", or a column entered by `with colN:`).
Stmt(k, a, b, slot) == [k |-> k, a |-> a, b |-> b, slot |-> slot]

StHeader(text) == Stmt("header", text, "", "main")
StMarkdown(id) == Stmt("markdown", id, "", "main")
StLoadPlot(image_name, caption) == Stmt("load_plot", image_name, caption, "main")
StLoadPlotIn(slot, image_name, caption) == Stmt("load_plot", image_name, caption, slot)
StColumns == Stmt("columns", "", "", "main")
StEmbedHtml(file_name) == Stmt("embed_html", file_name, "", "main")
StPdfOffer == Stmt("pdf_offer", PdfFile, "", "main")

\* Things the script puts on the page.  a and b are strings, n and h numbers.
Dir(op, a, b, n, h, slot) ==
    [op |-> op, a |-> a, b |-> b, n |-> n, h |-> h, slot |-> slot]

\* The radio's option list, in order.
\* (Captions are written here in ASCII: "-" for the en dash, "->" for the
\* arrow.)
Options ==
    << "1. Event Type Distribution",
       "2. Visitor Activity",
       "3. Session Construction",
       "4. Conversion Funnel",
       "5. User Segmentation",
       "6. Basket Size",
       "7. Category & Product Trends",
       "8. Event Lag Analysis",
       "9. Sunburst Chart",
       "10. Executive Summary",
       "11. References" >>

OptionSet == {Options[i] : i \in 1..Len(Options)}

\* st.sidebar.radio is called without index=, so a session that has made no
\* choice yet gets the first option.
RadioDefault == Options[1]

\* The body of each branch of the if/elif chain.  A markdown block is named by
\* the source line its literal starts on.
EventTypeDistribution ==
    << StHeader("1. Event Type Distribution"),
       StLoadPlot("event_type_distribution.png",
                  "Distribution of views, cart additions, and transactions."),
       StMarkdown("markdown@60") >>

VisitorActivity ==
    << StHeader("2. Visitor Activity Patterns"),
       StColumns,
       StLoadPlotIn("col1", "visitor_event_distribution_full.png",
                    "Full distribution of event counts per visitor."),
       StLoadPlotIn("col2", "visitor_event_distribution_zoomed.png",
                    "Zoomed distribution (0-100 events)."),
       StMarkdown("markdown@83"),
       StLoadPlot("sessions_per_visitor_distribution.png",
                  "Distribution of sessions per visitor."),
       StMarkdown("markdown@99"),
       StLoadPlot("events_per_session_distribution_zoomed.png",
                  "Events per session (0-50 range)."),
       StMarkdown("markdown@127") >>

SessionConstruction ==
    << StHeader("3. Session Construction & Timeout Thresholds"),
       StLoadPlot("time_gap_distribution_log.png",
                  "Log distribution of time gaps between events."),
       StMarkdown("markdown@153"),
       StMarkdown("markdown@169") >>

ConversionFunnel ==
    << StHeader("4. Conversion Funnel Breakdown"),
       StLoadPlot("conversion_funnel.png",
                  "From views to transactions: Ecommerce drop-off funnel."),
       StMarkdown("markdown@190") >>

UserSegmentation ==
    << StHeader("5. One-Time vs Power Users"),
       StLoadPlot("visitor_interaction_distribution.png",
                  "Log-scaled distribution of events per visitor."),
       StMarkdown("markdown@208") >>

BasketSize ==
    << StHeader("6. Basket Size Analysis"),
       StLoadPlot("basket_size_distribution.png",
                  "Distribution of number of items per purchase."),
       StMarkdown("markdown@230") >>

CategoryTrends ==
    << StHeader("7. Most Purchased Categories & Items"),
       StLoadPlot("top_categories_by_transactions.png",
                  "Top 10 categories ranked by number of transactions."),
       StMarkdown("markdown@239") >>

EventLagAnalysis ==
    << StHeader("8. Event Lag Timings"),
       StLoadPlot("event_lag_analysis_seconds.png",
                  "Delay between view -> cart and cart -> transaction (in seconds)."),
       StMarkdown("markdown@248") >>

SunburstChart ==
    << StHeader("9. Sunburst of Raw Category IDs"),
       StEmbedHtml("sunburst_category_transactions.html"),
       StMarkdown("markdown@257") >>

ExecutiveSummary ==
    << StHeader("10. Executive Summary"),
       StMarkdown("markdown@265"),
       StPdfOffer >>

References ==
    << StHeader("11. References"),
       StMarkdown("markdown@287") >>

\* The if/elif chain: the statements the run executes for a value of
\* `section`.  The chain has no else: a value that matches no branch runs
\* nothing.
Dispatch(section) ==
    IF section = "1. Event Type Distribution" THEN EventTypeDistribution
    ELSE IF section = "2. Visitor Activity" THEN VisitorActivity
    ELSE IF section = "3. Session Construction" THEN SessionConstruction
    ELSE IF section = "4. Conversion Funnel" THEN ConversionFunnel
    ELSE IF section = "5. User Segmentation" THEN UserSegmentation
    ELSE IF section = "6. Basket Size" THEN BasketSize
    ELSE IF section = "7. Category & Product Trends" THEN CategoryTrends
    ELSE IF section = "8. Event Lag Analysis" THEN EventLagAnalysis
    ELSE IF section = "9. Sunburst Chart" THEN SunburstChart
    ELSE IF section = "10. Executive Summary" THEN ExecutiveSummary
    ELSE IF section = "11. References" THEN References
    ELSE << >>

\* path.exists()
Exists(st, name) == st[name].st # "absent"

\* The outcome of one statement: what it puts on the page, and whether it
\* raises (the exception leaves the script: nothing in it has a try).
Emit(ds) == [out |-> ds, raised |-> FALSE]
Raise == [out |-> << >>, raised |-> TRUE]

\* load_plot whose else branch shows nothing.
load_plotSilent(st, image_name, caption, slot) ==
    IF Exists(st, image_name)
    THEN Emit(<< Dir("image", image_name, caption, 0, 0, slot) >>)
    ELSE Emit(<< >>)

\* load_plot(image_name, caption)
load_plot(st, image_name, caption, slot) ==
    IF Exists(st, image_name)
    THEN Emit(<< Dir("image", image_name, caption, 0, 0, slot) >>)
    ELSE Emit(<< Dir("warning", "Missing: ", image_name, 0, 0, slot) >>)

\* embed_html(file_name, height=600)
embed_html(st, file_name, height) ==
    IF Exists(st, file_name)
    THEN IF st[file_name].st = "ok"
         THEN Emit(<< Dir("html", "scrolling", "", st[file_name].data, height, "main") >>)
         ELSE Raise
    ELSE Emit(<< Dir("warning", "Missing HTML: ", file_name, 0, 0, "main") >>)

\* The PDF offer at the end of the Executive Summary branch.
pdf_offer(st) ==
    IF Exists(st, PdfFile)
    THEN IF st[PdfFile].st = "ok"
         THEN Emit(<< Dir("download_button", "Download Executive Summary (PDF)",
                         "executive_summary.pdf", st[PdfFile].data, 0, "main") >>)
         ELSE Raise
    ELSE Emit(<< Dir("info", "PDF version of the executive summary is not available.",
                    "", 0, 0, "main") >>)

\* One statement of a branch, run against the folder as it is now.
Exec(st, stmt) ==
    CASE stmt.k = "header" -> Emit(<< Dir("header", stmt.a, "", 0, 0, "main") >>)
      [] stmt.k = "markdown" -> Emit(<< Dir("markdown", stmt.a, "", 0, 0, "main") >>)
      [] stmt.k = "columns" -> Emit(<< Dir("columns", "", "", NumColumns, 0, "main") >>)
      [] stmt.k = "load_plot" -> load_plot(st, stmt.a, stmt.b, stmt.slot)
      [] stmt.k = "embed_html" -> embed_html(st, stmt.a, DefaultHeight)
      [] stmt.k = "pdf_offer" -> pdf_offer(st)

\* st.title and the intro st.markdown, which every run starts with.
Chrome ==
    << Dir("title", "Retail Rocket: Behavioural EDA Dashboard", "", 0, 0, "main"),
       Dir("markdown", "markdown@16", "", 0, 0, "main") >>

\* ------------------------------------------------------------- the state

VARIABLES
    store,      \* results_folder: file name -> what the script can observe of it
    selected,   \* per session: the value the sidebar radio holds
    section,    \* per session: the script variable `section` of the current run
    pc,         \* per session: "closed", or where the current run stands:
                \*   "chrome" before st.title, "radio" before st.sidebar.radio,
                \*   "body" inside the matching branch, "done" at the end of
                \*   the script, "raised" left by an exception
    ip,         \* per session: index of the next statement of the branch
    page,       \* per session: what the current run has put on the page
    stable,     \* per session: the folder has not changed since the run began
    fresh,      \* per session: no selection event since the session began
    hist        \* per session: what is remembered of the run before this one

vars == << store, selected, section, pc, ip, page, stable, fresh, hist >>

NoHist == [kind |-> "none", sec |-> Null, end |-> Null, pg |-> << >>]

InFlight(s) == pc[s] \in {"chrome", "radio", "body"}
Ended(s) == pc[s] \in {"done", "raised"}

Init ==
    /\ store = EmptyStore
    /\ selected = [s \in Sessions |-> Null]
    /\ section = [s \in Sessions |-> Null]
    /\ pc = [s \in Sessions |-> "closed"]
    /\ ip = [s \in Sessions |-> 0]
    /\ page = [s \in Sessions |-> << >>]
    /\ stable = [s \in Sessions |-> TRUE]
    /\ fresh = [s \in Sessions |-> FALSE]
    /\ hist = [s \in Sessions |-> NoHist]

\* A run of the script starts at its first line with an empty page; whatever
\* an earlier run of the session had put on the page, or was still about to,
\* is dropped.
BeginRunKeepPage(s) ==
    /\ pc' = [pc EXCEPT ![s] = "chrome"]
    /\ ip' = [ip EXCEPT ![s] = 0]
    /\ section' = [section EXCEPT ![s] = Null]
    /\ stable' = [stable EXCEPT ![s] = TRUE]
    /\ UNCHANGED page

BeginRun(s) ==
    /\ pc' = [pc EXCEPT ![s] = "chrome"]
    /\ ip' = [ip EXCEPT ![s] = 0]
    /\ section' = [section EXCEPT ![s] = Null]
    /\ stable' = [stable EXCEPT ![s] = TRUE]
    /\ page' = [page EXCEPT ![s] = << >>]

\* Connect that takes up the value the slot's previous session ended with.
ConnectResume(s) ==
    /\ pc[s] = "closed"
    /\ selected' = [selected EXCEPT ![s] =
                       IF selected[s] = Null THEN RadioDefault ELSE selected[s]]
    /\ fresh' = [fresh EXCEPT ![s] = TRUE]
    /\ hist' = [hist EXCEPT ![s] = NoHist]
    /\ BeginRun(s)
    /\ UNCHANGED store

\* A browser connects: a new session, whose radio holds its default.
Connect(s) ==
    /\ pc[s] = "closed"
    /\ selected' = [selected EXCEPT ![s] = RadioDefault]
    /\ fresh' = [fresh EXCEPT ![s] = TRUE]
    /\ hist' = [hist EXCEPT ![s] = NoHist]
    /\ BeginRun(s)
    /\ UNCHANGED store

\* The browser goes away.  `selected` keeps the ended session's last value, as
\* a record of it; the next session in this slot does not read it.
Close(s) ==
    /\ pc[s] # "closed"
    /\ pc' = [pc EXCEPT ![s] = "closed"]
    /\ ip' = [ip EXCEPT ![s] = 0]
    /\ section' = [section EXCEPT ![s] = Null]
    /\ page' = [page EXCEPT ![s] = << >>]
    /\ stable' = [stable EXCEPT ![s] = TRUE]
    /\ fresh' = [fresh EXCEPT ![s] = FALSE]
    /\ hist' = [hist EXCEPT ![s] = NoHist]
    /\ UNCHANGED << store, selected >>

\* SelectCore with one selection for the whole process: every open session's
\* radio takes the value.
SelectCoreShared(s, l) ==
    /\ pc[s] # "closed"
    /\ selected' = [t \in Sessions |-> IF pc[t] # "closed" THEN l ELSE selected[t]]
    /\ fresh' = [fresh EXCEPT ![s] = FALSE]
    /\ BeginRun(s)
    /\ UNCHANGED store

\* The user picks option l of the radio: the radio's value changes and the
\* script is run again from the top.
SelectCore(s, l) ==
    /\ pc[s] # "closed"
    /\ selected' = [selected EXCEPT ![s] = l]
    /\ fresh' = [fresh EXCEPT ![s] = FALSE]
    /\ BeginRun(s)
    /\ UNCHANGED store

\* What a selection event leaves in hist: the page of the run it follows, when
\* that run had ended, asked for the same section and saw one folder throughout.
RepeatHist(s, l) ==
    IF Ended(s) /\ stable[s] /\ section[s] = l
    THEN [kind |-> "repeat", sec |-> section[s], end |-> pc[s], pg |-> page[s]]
    ELSE NoHist

\* What a selection event leaves in hist: the page of the run it cuts short.
CutHist(s, l) ==
    IF InFlight(s)
    THEN [kind |-> "cut", sec |-> section[s], end |-> pc[s], pg |-> page[s]]
    ELSE NoHist

Select(s, l) ==
    /\ SelectCore(s, l)
    /\ hist' = [hist EXCEPT ![s] = RepeatHist(s, l)]

SelectRapid(s, l) ==
    /\ SelectCore(s, l)
    /\ hist' = [hist EXCEPT ![s] = CutHist(s, l)]

SelectPlain(s, l) ==
    /\ SelectCore(s, l)
    /\ UNCHANGED hist

\* RunChrome whose title is the label of the selected section.
RunChromeTitled(s) ==
    /\ pc[s] = "chrome"
    /\ page' = [page EXCEPT ![s] = page[s] \o
                   << Dir("title", selected[s], "", 0, 0, "main"), Chrome[2] >>]
    /\ pc' = [pc EXCEPT ![s] = "radio"]
    /\ UNCHANGED << store, selected, section, ip, stable, fresh, hist >>

\* RunChrome that shows title and intro on a session's first run only.
RunChromeOnce(s) ==
    /\ pc[s] = "chrome"
    /\ page' = [page EXCEPT ![s] = page[s] \o (IF fresh[s] THEN Chrome ELSE << >>)]
    /\ pc' = [pc EXCEPT ![s] = "radio"]
    /\ UNCHANGED << store, selected, section, ip, stable, fresh, hist >>

\* Lines 14-19: page config, title, intro.
RunChrome(s) ==
    /\ pc[s] = "chrome"
    /\ page' = [page EXCEPT ![s] = page[s] \o Chrome]
    /\ pc' = [pc EXCEPT ![s] = "radio"]
    /\ UNCHANGED << store, selected, section, ip, stable, fresh, hist >>

\* Line 42: section = st.sidebar.radio(...).  With no branch to run the
\* script is at its end.
RunRadio(s) ==
    /\ pc[s] = "radio"
    /\ section' = [section EXCEPT ![s] = selected[s]]
    /\ ip' = [ip EXCEPT ![s] = 1]
    /\ pc' = [pc EXCEPT ![s] = IF Dispatch(selected[s]) = << >> THEN "done" ELSE "body"]
    /\ UNCHANGED << store, selected, page, stable, fresh, hist >>

\* RunStmt that puts the radio back to its default when a statement finds its
\* artifact missing.
RunStmtFallback(s) ==
    /\ pc[s] = "body"
    /\ LET body == Dispatch(section[s])
           r == Exec(store, body[ip[s]])
       IN  /\ page' = [page EXCEPT ![s] = page[s] \o r.out]
           /\ ip' = [ip EXCEPT ![s] = IF r.raised THEN ip[s] ELSE ip[s] + 1]
           /\ pc' = [pc EXCEPT ![s] =
                        IF r.raised THEN "raised"
                        ELSE IF ip[s] = Len(body) THEN "done" ELSE "body"]
           /\ selected' = [selected EXCEPT ![s] =
                        IF \E i \in 1..Len(r.out) : r.out[i].op = "warning"
                        THEN RadioDefault ELSE selected[s]]
    /\ UNCHANGED << store, section, stable, fresh, hist >>

\* The next statement of the branch chosen by `section`.
RunStmt(s) ==
    /\ pc[s] = "body"
    /\ LET body == Dispatch(section[s])
           r == Exec(store, body[ip[s]])
       IN  /\ page' = [page EXCEPT ![s] = page[s] \o r.out]
           /\ ip' = [ip EXCEPT ![s] = IF r.raised THEN ip[s] ELSE ip[s] + 1]
           /\ pc' = [pc EXCEPT ![s] =
                        IF r.raised THEN "raised"
                        ELSE IF ip[s] = Len(body) THEN "done" ELSE "body"]
    /\ UNCHANGED << store, selected, section, stable, fresh, hist >>

\* The offline pipeline (or anything else outside the script) changes the
\* folder.  A remembered page was rendered from the old folder and is dropped.
Pipeline(cases) ==
    /\ store' \in cases \ {store}
    /\ stable' = [s \in Sessions |-> FALSE]
    /\ hist' = [s \in Sessions |-> IF hist[s].kind = "repeat" THEN NoHist ELSE hist[s]]
    /\ UNCHANGED << selected, section, pc, ip, page, fresh >>

BasicCases == {EmptyStore, FullStore(1)}

PipelineAny == Pipeline(StoreCases)
PipelineBasic == Pipeline(BasicCases)

\* One session, every folder case, hist remembers a repeated selection.
Next ==
    \/ \E s \in Solo : Connect(s)
    \/ \E s \in Solo : Close(s)
    \/ \E s \in Solo : \E l \in OptionSet : Select(s, l)
    \/ \E s \in Solo : RunChrome(s)
    \/ \E s \in Solo : RunRadio(s)
    \/ \E s \in Solo : RunStmt(s)
    \/ PipelineAny

Spec == Init /\ [][Next]_vars

\* The stale value a client may still hold for the radio: a label of an
\* earlier option list that the current list no longer has.
StaleLabel == "0. Overview"

\* A selection event that carries a value outside the option list.
StaleSelect(s) ==
    /\ SelectCore(s, StaleLabel)
    /\ hist' = [hist EXCEPT ![s] = NoHist]

\* Spec, and the radio may hand the script a value outside its option list.
NextStale ==
    \/ Next
    \/ \E s \in Solo : StaleSelect(s)

SpecStale == Init /\ [][NextStale]_vars

\* One session, the folder empty or complete, hist remembers the run a
\* selection cut short.
NextRapid ==
    \/ \E s \in Solo : Connect(s)
    \/ \E s \in Solo : Close(s)
    \/ \E s \in Solo : \E l \in OptionSet : SelectRapid(s, l)
    \/ \E s \in Solo : RunChrome(s)
    \/ \E s \in Solo : RunRadio(s)
    \/ \E s \in Solo : RunStmt(s)
    \/ PipelineBasic

SpecRapid == Init /\ [][NextRapid]_vars

\* Two sessions side by side, the folder empty or complete.
NextMulti ==
    \/ \E s \in Sessions : Connect(s)
    \/ \E s \in Sessions : Close(s)
    \/ \E s \in Sessions : \E l \in OptionSet : SelectPlain(s, l)
    \/ \E s \in Sessions : RunChrome(s)
    \/ \E s \in Sessions : RunRadio(s)
    \/ \E s \in Sessions : RunStmt(s)
    \/ PipelineBasic

SpecMulti == Init /\ [][NextMulti]_vars

\* ------------------------------------------- the script as one function

\* Statements i.. of a branch run against one folder: the directives they put
\* on the page, up to the end of the branch or to the first exception.
RECURSIVE RunFrom(_, _, _)
RunFrom(st, body, i) ==
    IF i > Len(body)
    THEN [pg |-> << >>, end |-> "done"]
    ELSE LET r == Exec(st, body[i])
         IN  IF r.raised
             THEN [pg |-> << >>, end |-> "raised"]
             ELSE LET rest == RunFrom(st, body, i + 1)
                  IN  [pg |-> r.out \o rest.pg, end |-> rest.end]

\* A whole run of the script for a radio value and a folder.
Render(sec, st) ==
    LET r == RunFrom(st, Dispatch(sec), 1)
    IN  [pg |-> Chrome \o r.pg, end |-> r.end]

\* ------------------------------------------------- vocabulary of the claims

\* Directive d is one that statement stmt is written to put on the page.
Produces(stmt, d) ==
    CASE stmt.k = "header" -> d.op = "header" /\ d.a = stmt.a
      [] stmt.k = "markdown" -> d.op = "markdown" /\ d.a = stmt.a
      [] stmt.k = "columns" -> d.op = "columns"
      [] stmt.k = "load_plot" ->
             /\ d.slot = stmt.slot
             /\ \/ d.op = "image" /\ d.a = stmt.a /\ d.b = stmt.b
                \/ d.op = "warning" /\ d.b = stmt.a
      [] stmt.k = "embed_html" ->
             \/ d.op = "html"
             \/ d.op = "warning" /\ d.b = stmt.a
      [] stmt.k = "pdf_offer" -> d.op \in {"download_button", "info"}

\* Directive d is one of those defined for the section labelled sec.
DefinedFor(sec, d) ==
    \E j \in 1..Len(Dispatch(sec)) : Produces(Dispatch(sec)[j], d)

\* The part of a page after the chrome.
Content(pg) == SubSeq(pg, Len(Chrome) + 1, Len(pg))

\* The page holds, after the chrome, one directive for each statement of the
\* branch of sec, in the order of the statements.
ExactlySection(sec, pg) ==
    LET body == Dispatch(sec)
        c == Content(pg)
    IN  /\ Len(pg) >= Len(Chrome)
        /\ SubSeq(pg, 1, Len(Chrome)) = Chrome
        /\ Len(c) = Len(body)
        /\ \A i \in 1..Len(body) : Produces(body[i], c[i])

\* No directive of the page after the chrome is defined for a section other
\* than sec.
NothingForeign(sec, pg) ==
    \A i \in 1..Len(Content(pg)) :
        \A other \in OptionSet \ {sec} : ~DefinedFor(other, Content(pg)[i])

\* The artifact files the branch of sec refers to.
FilesOf(sec) ==
    {Dispatch(sec)[j].a : j \in {i \in 1..Len(Dispatch(sec)) :
        Dispatch(sec)[i].k \in {"load_plot", "embed_html", "pdf_offer"}}}

\* Position on the page of the directive of the statement that refers to f.
SlotOf(sec, f) ==
    Len(Chrome) + (CHOOSE j \in 1..Len(Dispatch(sec)) :
        /\ Dispatch(sec)[j].k \in {"load_plot", "embed_html", "pdf_offer"}
        /\ Dispatch(sec)[j].a = f)

\* A notice (warning or info box) whose text holds file name f.
NoticeNaming(d, f) == d.op \in {"warning", "info"} /\ f \in {d.a, d.b}

\* ------------------------------------------------------------------ C1
\* C1: for every section S of the registry, a run with S selected puts on the
\* page exactly the directives defined for S, one per statement of S's branch
\* and in the branch's order, and none defined for any other section.
C1_ExactlyTheSection ==
    \A s \in Sessions :
        (Ended(s) /\ section[s] \in OptionSet) =>
            /\ ExactlySection(section[s], page[s])
            /\ NothingForeign(section[s], page[s])

\* The same for the runs that reach the end of the script.
C1_CompletedRuns ==
    \A s \in Sessions :
        (pc[s] = "done" /\ section[s] \in OptionSet) =>
            /\ ExactlySection(section[s], page[s])
            /\ NothingForeign(section[s], page[s])

\* ------------------------------------------------------------------ C2
\* Every directive of the page other than the one at f's position is what a
\* run over the same folder with f readable puts there.
OthersAsIfPresent(sec, st, pg, f) ==
    LET want == Render(sec, [st EXCEPT ![f] = Ok(1)]).pg
    IN  /\ Len(pg) = Len(want)
        /\ \A i \in 1..Len(pg) : i # SlotOf(sec, f) => pg[i] = want[i]

\* C2 as stated: whenever a file a section refers to (image, HTML or PDF) is
\* absent, the page of that section holds a notice naming that file, and every
\* other directive is as it would be with the file present.
C2_NoticeNamesEveryFile ==
    \A s \in Sessions :
        (Ended(s) /\ stable[s] /\ section[s] \in OptionSet) =>
            \A f \in FilesOf(section[s]) :
                ~Exists(store, f) =>
                    /\ \E i \in 1..Len(page[s]) : NoticeNaming(page[s][i], f)
                    /\ OthersAsIfPresent(section[s], store, page[s], f)

\* C2 amended: an absent image or HTML file gets a warning naming that file;
\* the absent PDF gets an info notice that names no file; in each case the
\* notice stands at the file's position and every other directive is as it
\* would be with the file present.
C2_NoticePerKind ==
    \A s \in Sessions :
        (Ended(s) /\ stable[s] /\ section[s] \in OptionSet) =>
            \A f \in FilesOf(section[s]) :
                ~Exists(store, f) =>
                    LET d == page[s][SlotOf(section[s], f)]
                    IN  /\ Len(page[s]) >= SlotOf(section[s], f)
                        /\ IF f = PdfFile
                           THEN d.op = "info" /\ ~NoticeNaming(d, f)
                           ELSE d.op = "warning" /\ NoticeNaming(d, f)
                        /\ OthersAsIfPresent(section[s], store, page[s], f)

\* Scenario B: the folder is empty and the Conversion Funnel page holds the
\* warning for conversion_funnel.png followed by the narrative.
C2_Witness ==
    \E s \in Sessions :
        /\ pc[s] = "done" /\ stable[s] /\ store = EmptyStore
        /\ section[s] = "4. Conversion Funnel"
        /\ page[s][4] = Dir("warning", "Missing: ", "conversion_funnel.png", 0, 0, "main")
        /\ page[s][5].op = "markdown"

\* ------------------------------------------------------------------ C4
\* C4: no state of the artifacts makes a run end in an exception; every run
\* ends at the end of the script with a directive on the page for every
\* statement of its branch.
C4_NoRunRaises ==
    \A s \in Sessions :
        /\ pc[s] # "raised"
        /\ Ended(s) => Len(page[s]) = Len(Chrome) + Len(Dispatch(section[s]))

C8_DownloadOrInfo ==
    \A s \in Sessions :
        (Ended(s) /\ stable[s] /\ section[s] = "10. Executive Summary") =>
            LET c == Content(page[s])
            IN  /\ Len(c) = 3
                /\ c[2] = Dir("markdown", "markdown@265", "", 0, 0, "main")
                /\ IF Exists(store, PdfFile)
                   THEN /\ c[3].op = "download_button"
                        /\ c[3].b = "executive_summary.pdf"
                        /\ c[3].n = store[PdfFile].data
                        /\ c[3].n \in Contents
                   ELSE c[3].op = "info"
                /\ \A i \in 1..2 : c[i].op \notin {"download_button", "info", "warning"}

\* The same with "present" read as "present and readable".
C8_ReadableOrAbsent ==
    \A s \in Sessions :
        (Ended(s) /\ stable[s] /\ section[s] = "10. Executive Summary"
            /\ store[PdfFile].st \in {"ok", "absent"}) =>
            LET c == Content(page[s])
            IN  /\ Len(c) = 3
                /\ c[2] = Dir("markdown", "markdown@265", "", 0, 0, "main")
                /\ IF Exists(store, PdfFile)
                   THEN /\ c[3].op = "download_button"
                        /\ c[3].b = "executive_summary.pdf"
                        /\ c[3].n = store[PdfFile].data
                        /\ c[3].n \in Contents
                   ELSE c[3].op = "info"
                /\ \A i \in 1..2 : c[i].op \notin {"download_button", "info", "warning"}

\* ------------------------------------------------------------------ C9
\* C9: with the folder unchanged, a run for the section the run before it was
\* for ends with the same page in the same way; and the page of any run that
\* saw one folder throughout is the one the section and that folder determine,
\* whatever was selected or shown before.
C9_Idempotent ==
    \A s \in Sessions :
        (Ended(s) /\ stable[s]) =>
            /\ hist[s].kind = "repeat" =>
                   /\ hist[s].sec = section[s]
                   /\ page[s] = hist[s].pg
                   /\ pc[s] = hist[s].end
            /\ page[s] = Render(section[s], store).pg
            /\ pc[s] = Render(section[s], store).end

\* Visitor Activity rendered twice in a row over the complete folder.
C9_Witness ==
    \E s \in Sessions :
        /\ pc[s] = "done" /\ stable[s] /\ hist[s].kind = "repeat"
        /\ section[s] = "2. Visitor Activity"
        /\ store = FullStore(2)
        /\ Len(page[s]) = Len(Chrome) + Len(VisitorActivity)

\* ------------------------------------------------------------------ C5
\* C5: in every open session the radio holds exactly one label, one of the 11
\* of the registry, and its value changes only by a selection event of that
\* session: no step of a run and no change of the folder changes it.
C5_SelectionOnlyByUser ==
    [][ \A s \in Sessions :
            pc'[s] # "closed" =>
                /\ Cardinality(OptionSet) = 11
                /\ Cardinality({l \in OptionSet : l = selected'[s]}) = 1
                /\ (pc[s] # "closed" /\ selected'[s] # selected[s]) =>
                       \E l \in OptionSet : Select(s, l) ]_vars

\* A session that has made selections and now shows the last section.
C5_Witness ==
    \E s \in Sessions :
        /\ pc[s] = "done" /\ ~fresh[s]
        /\ selected[s] = "11. References"
        /\ section[s] = "11. References"

\* ------------------------------------------------------------------ C6
\* C6: a session that has seen no selection event has the first registry
\* entry selected, whatever other sessions have or had selected.
C6_FreshSessionFirst ==
    \A s \in Sessions :
        fresh[s] => selected[s] = "1. Event Type Distribution"

\* A session starts while another one has the Sunburst section selected.
C6_Witness ==
    /\ fresh["s2"] /\ pc["s2"] = "done"
    /\ pc["s1"] # "closed" /\ ~fresh["s1"]
    /\ selected["s1"] = "9. Sunburst Chart"

Touched(s) ==
    \/ selected'[s] # selected[s]
    \/ section'[s] # section[s]
    \/ pc'[s] # pc[s]
    \/ ip'[s] # ip[s]
    \/ page'[s] # page[s]

\* C10: a step of one session (a selection or a step of a run) leaves every
\* other session's selection and page as they were, and leaves the folder as
\* it was.
C10_SessionsIsolated ==
    [][ /\ \A s \in Sessions : \A t \in Sessions \ {s} :
               Touched(s) => (selected'[t] = selected[t] /\ page'[t] = page[t])
        /\ (\E s \in Sessions : Touched(s)) => store' = store ]_vars

\* Two open sessions that have each selected a section of their own and show
\* it.
C10_Witness ==
    /\ pc["s1"] = "done" /\ pc["s2"] = "done"
    /\ ~fresh["s1"] /\ ~fresh["s2"]
    /\ selected["s1"] = "5. User Segmentation"
    /\ selected["s2"] = "9. Sunburst Chart"
    /\ store = FullStore(1)

\* ------------------------------------------------------------------ C11
\* C11: a step that changes an open session's selection starts a run from the
\* top with an empty page; and in every run, whatever section is selected, the
\* page holds nothing before the title "Retail Rocket: Behavioural EDA
\* Dashboard" and the intro text, which come first, once, and in that order,
\* with the section's content only after them.
C11_ChromeUnchanged ==
    [][ \A s \in Sessions :
            /\ (pc[s] # "closed" /\ pc'[s] # "closed" /\ selected'[s] # selected[s]) =>
                   /\ pc'[s] = "chrome"
                   /\ ip'[s] = 0
                   /\ section'[s] = Null
                   /\ page'[s] = << >>
            /\ pc'[s] = "chrome" => page'[s] = << >>
            /\ pc'[s] \in {"radio", "body", "done", "raised"} =>
                   /\ Len(page'[s]) >= 2
                   /\ page'[s][1] =
                          Dir("title", "Retail Rocket: Behavioural EDA Dashboard",
                              "", 0, 0, "main")
                   /\ page'[s][2] = Dir("markdown", "markdown@16", "", 0, 0, "main")
                   /\ \A i \in 3..Len(page'[s]) :
                          /\ page'[s][i].op # "title"
                          /\ page'[s][i].a # "markdown@16" ]_vars

\* After a change of selection the run for "7. Category & Product Trends" has
\* ended: title and intro first, the section's header right after them.
C11_Witness ==
    \E s \in Sessions :
        /\ pc[s] = "done" /\ ~fresh[s]
        /\ section[s] = "7. Category & Product Trends"
        /\ page[s][1].op = "title"
        /\ page[s][2].a = "markdown@16"
        /\ page[s][3] = Dir("header", "7. Most Purchased Categories & Items", "", 0, 0, "main")

====
